---- MODULE Spec2Model ----
(***************************************************************************)
(* Content negotiation and streaming encoders of eoapi-devseed.            *)
(*                                                                         *)
(* Spec      the request handlers of runtimes/eoapi/stac/eoapi/stac/       *)
(*           client.py (and the two raster handlers of raster/app.py)      *)
(*           deciding the output MediaType of one request.                 *)
(* SpecCsv   the CSV generator _create_csv_rows / items_to_csv_rows,       *)
(*           resumed one chunk at a time by the streaming response.        *)
(* SpecProjector  the same generator on pages whose properties are named   *)
(*           like the columns the projection sets itself.                  *)
(* SpecSeq   the newline-delimited GeoJSON generator expression.           *)
(* SpecPaged the three paged handlers and their response headers.          *)
(* SpecConcurrent  two get_search requests served concurrently.            *)
(* SpecHtml  create_html_response building the breadcrumbs of a page.      *)
(* SpecRoutes  add_route_dependencies of raster/auth.py.                   *)
(* SpecConfig  AppConfig.validate_model of infrastructure/config.py.       *)
(* SpecRange, SpecLazy  Spec and SpecCsv on Accept headers with any q      *)
(*           value and on a page given as a single-pass iterator.          *)
(* SpecHooks the SnapStart hooks of infrastructure/handlers.               *)
(* SpecAuth  the user_token dependency of stac/auth.py.                    *)
(*                                                                         *)
(* A Python str is modelled as a sequence of atoms (TLA+ strings); the     *)
(* separators "," ";" "=" and " " are atoms of their own, so that          *)
(* str.replace and str.split are computed on the header, not assumed.      *)
(***************************************************************************)
EXTENDS Integers, Sequences, FiniteSets, TLC

VARIABLES
    request,    \* the HTTP request being served: endpoint, f, Accept header
    runs,       \* how many times the handler ran on this request
    links,      \* item_collection["links"] of the page the database returned
    response,   \* what the last run of the handler answered
    prev,       \* what the run before answered
    items,      \* item_collection["features"] given to items_to_csv_rows
    with_geometry, \* which `rows` generator items_to_csv_rows built
    rows_pos,   \* index of the next feature the `rows` generator will read
    pc,         \* where the _create_csv_rows generator is suspended
    fieldnames, \* DictWriter.fieldnames (keys of the first row)
    row,        \* local `row` of _create_csv_rows
    out,        \* chunks the generator has yielded so far
    exc,        \* the exception the generator ended with, if any
    other,       \* the request suspended while this one runs, if there is one
    page, \* the request create_html_response renders: root path, prefix, path
    context, \* the template context create_html_response built
    routes, \* the routes given to add_route_dependencies, with their dependencies
    route_call, \* the scopes and dependencies of the call, and whether it returned
    config, \* the field values an AppConfig is constructed from
    built, \* whether AppConfig(...) returned the model or raised
    single_pass, \* whether `items` is an iterator that can be read once only
    lambda_app, \* which handler module runs in the Lambda, and settings.enable_transaction
    attached, \* app.state.dbpool / readpool / writepool: the number of a pool, 0 for None
    pools, \* every pool created so far: its role, whether it is open, its close() calls
    connection_initialized, \* the module global _connection_initialized
    hook, \* the last hook invoked, its outcome, the pools attached when it started
    hooks_run, \* how many hooks have been invoked
    token_str, \* the Authorization value given to user_token
    required_scopes, \* required_scopes.scopes of the route
    jwt_token, \* the token the client sent: how it validates, its scope claim
    token_result \* what user_token returned or raised

negVars == <<request, links, runs, response, prev>>
csvVars == <<items, with_geometry, rows_pos, pc, fieldnames, row, out, exc>>
authVars == <<token_str, required_scopes, jwt_token, token_result>>
hookVars == <<lambda_app, attached, pools, connection_initialized, hook, hooks_run>>
\* the state outside the negotiation and the encoders
outside == <<page, context, routes, route_call, config, built,
             single_pass, lambda_app, attached, pools,
             connection_initialized, hook, hooks_run, token_str,
             required_scopes, jwt_token, token_result>>
vars == <<request, links, runs, response, prev,
          items, with_geometry, rows_pos, pc, fieldnames, row, out, exc, other,
          outside>>

-----------------------------------------------------------------------------
(* Bounds of the model *)

MaxEntries == 3     \* entries of an Accept header when no f is given
MaxEntriesF == 1    \* entries of an Accept header sent along with f
MaxRuns == 2        \* runs of the handler on one request
MaxItems == 3       \* features of one page
MaxItemsC == 2      \* features of the page of each of two concurrent requests

None == "None"

-----------------------------------------------------------------------------
(* Python str primitives on atom sequences *)

\* str.replace(old, "") for a one-atom old
Replace(s, old) == SelectSeq(s, LAMBDA a : a # old)

\* str.split(sep): the pieces between separators, empty pieces included
RECURSIVE Split(_, _)
Split(s, sep) ==
    IF \A i \in 1..Len(s) : s[i] # sep
    THEN <<s>>
    ELSE LET i == CHOOSE k \in 1..Len(s) :
                      s[k] = sep /\ \A j \in 1..(k - 1) : s[j] # sep
         IN  <<SubSeq(s, 1, i - 1)>> \o Split(SubSeq(s, i + 1, Len(s)), sep)

\* sep.join(parts) followed by nothing else
RECURSIVE Join(_, _)
Join(parts, sep) ==
    IF parts = <<>> THEN <<>>
    ELSE IF Len(parts) = 1 THEN parts[1]
    ELSE parts[1] \o sep \o Join(Tail(parts), sep)

-----------------------------------------------------------------------------
(* Python float: a value in tenths, or NaN *)

Flt(v) == [nan |-> FALSE, v |-> v]
NaN == [nan |-> TRUE, v |-> 0]
One == Flt(10)
Zero == Flt(0)

\* the literals float() accepts among the q values of the model; every
\* other string makes float() raise ValueError
FloatLiterals ==
    (<<"0">> :> Flt(0)) @@ (<<"0.5">> :> Flt(5)) @@ (<<"0.8">> :> Flt(8))
    @@ (<<"1">> :> Flt(10)) @@ (<<"2">> :> Flt(20)) @@ (<<"-1">> :> Flt(-10))
    @@ (<<"nan">> :> NaN)

\* bool(x) of a float: NaN is truthy, 0.0 is not
Truthy(x) == x.nan \/ x.v # 0

\* x == y and x > y on floats: every comparison with NaN is false
FloatEq(x, y) == ~x.nan /\ ~y.nan /\ x.v = y.v
FloatGt(x, y) == ~x.nan /\ ~y.nan /\ x.v > y.v

-----------------------------------------------------------------------------
(* stac_pydantic.shared.MimeTypes: member name -> value *)

MimeTypes ==
    [json       |-> <<"application/json">>,
     html       |-> <<"text/html">>,
     geojson    |-> <<"application/geo+json">>,
     geojsonseq |-> <<"application/geo+json-seq">>,
     csv        |-> <<"text/csv">>,
     parquet    |-> <<"application/x-parquet">>,
     jsonschema |-> <<"application/schema+json">>]

\* the Literal[...] aliases of client.py, in declaration order
ResponseType == <<"json", "html">>
GeoResponseType == <<"geojson", "html">>
QueryablesResponseType == <<"jsonschema", "html">>
GeoMultiResponseType == <<"geojson", "html", "geojsonseq", "csv">>
PostMultiResponseType == <<"geojson", "geojsonseq", "csv">>
\* accepted_media of the raster landing and conformance handlers
RasterAcceptedMedia == <<"html", "json">>

\* the values the request models accept for the query parameter f
HTMLorJSONGetRequest == {"json", "html"}
HTMLorGeoGetRequest == {"geojson", "html"}
HTMLorGeoGetRequestMulti == {"geojson", "html", "csv", "geojsonseq", "parquet"}
HTMLorSchemaGetRequest == {"jsonschema", "html"}
RasterFLiteral == {"html", "json"}

-----------------------------------------------------------------------------
(* accept_media_type *)

Raise(e) == [exc |-> e, value |-> None]
Return(v) == [exc |-> "", value |-> v]

\* dict.__setitem__
Put(d, k, v) == [x \in (DOMAIN d) \cup {k} |-> IF x = k THEN v ELSE d[x]]
EmptyDict == [x \in {} |-> Zero]

SetMax(S) == CHOOSE x \in S : \A y \in S : y <= x
SetMin(S) == CHOOSE x \in S : \A y \in S : x <= y

\* [param.split("=") for param in values[1:]]
ParamPairs(values) ==
    [i \in 1..(Len(values) - 1) |-> Split(values[i + 1], "=")]

\* dict([...]) raises ValueError unless every element has length 2
DictRaises(pairs) == \E i \in 1..Len(pairs) : Len(pairs[i]) # 2

\* groups.get("q"): the value of the last q parameter, if there is one
GroupsGetQ(pairs) ==
    LET qs == {i \in 1..Len(pairs) : pairs[i][1] = <<"q">>}
    IN  IF qs = {} THEN [found |-> FALSE, val |-> <<>>]
        ELSE [found |-> TRUE, val |-> pairs[SetMax(qs)][2]]

\* `quality = float(q) if q else 1.0`, `except ValueError: quality = 0`
QualityOf(q) ==
    IF ~q.found \/ q.val = <<>> THEN One
    ELSE IF q.val \in DOMAIN FloatLiterals THEN FloatLiterals[q.val]
    ELSE Zero

\* body of the for loop over the entries of the header, lines 67-82
RECURSIVE AcceptLoop(_, _)
AcceptLoop(ms, accept_values) ==
    IF ms = <<>> THEN [raised |-> FALSE, values |-> accept_values]
    ELSE LET values == Split(Head(ms), ";")
             name == values[1]
         IN  IF Len(values) = 1
             THEN AcceptLoop(Tail(ms), Put(accept_values, name, One))
             ELSE IF DictRaises(ParamPairs(values))
             THEN [raised |-> TRUE, values |-> accept_values]
             ELSE LET quality == QualityOf(GroupsGetQ(ParamPairs(values)))
                  IN  AcceptLoop(Tail(ms),
                                 IF Truthy(quality)
                                 THEN Put(accept_values, name, quality)
                                 ELSE accept_values)

\* accept_values after the loop of lines 65-82
AcceptValues(accept) ==
    AcceptLoop(Split(Replace(accept, " "), ","), EmptyDict)

Perms(S) ==
    {p \in [1..Cardinality(S) -> S] :
        \A i, j \in 1..Cardinality(S) : i # j => p[i] # p[j]}

\* sorted(set(accept_values.values()), reverse=True): descending when the
\* values are totally ordered.  With a NaN among them no comparison with it
\* is true and the set's iteration order follows id(NaN), so list.sort may
\* leave the values in any order.
SortedReverse(S) ==
    IF \E x \in S : x.nan
    THEN Perms(S)
    ELSE {p \in Perms(S) :
            \A i \in 1..(Cardinality(S) - 1) : FloatGt(p[i], p[i + 1])}

\* media_preference[v]
Pref(accept_values, v) ==
    {n \in DOMAIN accept_values : FloatEq(accept_values[n], v)}

\* the two nested loops of lines 91-94 and the fallbacks of lines 98-101
SelectMedia(order, accept_values, mediatypes) ==
    LET hit(i, j) == MimeTypes[mediatypes[j]] \in Pref(accept_values, order[i])
        groups == {i \in 1..Len(order) : \E j \in 1..Len(mediatypes) : hit(i, j)}
    IN  IF groups # {}
        THEN LET g == SetMin(groups)
             IN  mediatypes[SetMin({j \in 1..Len(mediatypes) : hit(g, j)})]
        ELSE IF <<"*">> \in DOMAIN accept_values /\ mediatypes # <<>>
        THEN mediatypes[1]
        ELSE None

\* the outcomes accept_media_type(accept, mediatypes) can have
accept_media_type(accept, mediatypes) ==
    LET parsed == AcceptValues(accept)
        quals == {parsed.values[n] : n \in DOMAIN parsed.values}
    IN  IF parsed.raised
        THEN {Raise("ValueError")}
        ELSE {Return(SelectMedia(order, parsed.values, mediatypes)) :
                order \in SortedReverse(quals)}

-----------------------------------------------------------------------------
(* Python dict: the keys in insertion order, each with its value *)

Keys(d) == [i \in 1..Len(d) |-> d[i][1]]
KeySet(d) == {d[i][1] : i \in 1..Len(d)}
\* d.get(k, default)
Get(d, k, default) ==
    IF k \in KeySet(d)
    THEN d[CHOOSE i \in 1..Len(d) : d[i][1] = k][2]
    ELSE default
\* a mapping that appends every assignment, also of a key already there
DictAppend(d, k, v) == Append(d, <<k, v>>)

\* d[k] = v: a key already there keeps its place
DictSet(d, k, v) ==
    IF k \in KeySet(d)
    THEN [i \in 1..Len(d) |-> IF d[i][1] = k THEN <<k, v>> ELSE d[i]]
    ELSE Append(d, <<k, v>>)
\* {**d, **e}
RECURSIVE DictUpdate(_, _)
DictUpdate(d, e) ==
    IF e = <<>> THEN d
    ELSE DictUpdate(DictSet(d, e[1][1], e[1][2]), Tail(e))

-----------------------------------------------------------------------------
(* The request handlers *)

NoResponse ==
    [status |-> "none", output_type |-> None, body |-> "none", headers |-> <<>>]

\* a handler that consults the Accept header before the query parameter f
AcceptFirstOutputTypes(f, accept, accepted_media) ==
    IF accept # <<>>
    THEN accept_media_type(accept, accepted_media)
    ELSE {IF f \in DOMAIN MimeTypes THEN Return(f) ELSE Raise("KeyError")}

\* `if f: output_type = MimeTypes[f]` / `else: accept_media_type(...)`
OutputTypes(f, accept, accepted_media) ==
    IF f # None
    THEN {IF f \in DOMAIN MimeTypes THEN Return(f) ELSE Raise("KeyError")}
    ELSE accept_media_type(accept, accepted_media)

\* the raster handlers: `accept_media_type(...) or MediaType.json`
RasterOutputTypes(f, accept, accepted_media) ==
    IF f # None
    THEN {IF f \in DOMAIN MimeTypes THEN Return(f) ELSE Raise("KeyError")}
    ELSE {IF o.exc = "" /\ o.value = None THEN Return("json") ELSE o :
            o \in accept_media_type(accept, accepted_media)}

\* the representation each handler renders for an output_type
RenderJSON(output_type) ==
    IF output_type = "html" THEN "html" ELSE "json"
RenderSchema(output_type) ==
    IF output_type = "html" THEN "html" ELSE "jsonschema"
RenderGeo(output_type) ==
    IF output_type = "html" THEN "html" ELSE "geojson"
RenderGeoMulti(output_type) ==
    IF output_type = "html" THEN "html"
    ELSE IF output_type = "csv" THEN "csv"
    ELSE IF output_type = "geojsonseq" THEN "geojsonseq"
    ELSE "geojson"
RenderPostMulti(output_type) ==
    IF output_type = "csv" THEN "csv"
    ELSE IF output_type = "geojsonseq" THEN "geojsonseq"
    ELSE "geojson"

\* the rendering of each kind of handler, by output_type
Renderers ==
    [json   |-> [o \in DOMAIN MimeTypes \cup {None} |-> RenderJSON(o)],
     schema |-> [o \in DOMAIN MimeTypes \cup {None} |-> RenderSchema(o)],
     geo    |-> [o \in DOMAIN MimeTypes \cup {None} |-> RenderGeo(o)],
     multi  |-> [o \in DOMAIN MimeTypes \cup {None} |-> RenderGeoMulti(o)],
     post   |-> [o \in DOMAIN MimeTypes \cup {None} |-> RenderPostMulti(o)]]

\* next(filter(lambda link: link["rel"] in rels, ls), None): the first link
\* of one of the relations, as a list of the link, empty for None
FirstLink(ls, rels) ==
    IF \E i \in 1..Len(ls) : ls[i].rel \in rels
    THEN <<ls[SetMin({i \in 1..Len(ls) : ls[i].rel \in rels})]>>
    ELSE <<>>

\* the two links in the order prev, next
PrevFirstLinks(ls) ==
    FirstLink(ls, {"prev", "previous"}) \o FirstLink(ls, {"next"})

\* [link for link in [next_link, prev_link] if link]
PresentLinks(ls) ==
    FirstLink(ls, {"next"}) \o FirstLink(ls, {"prev", "previous"})

\* f'<{target}>; rel="{rel}"'
LinkEntry(target, rel) ==
    <<"<", target, ">", ";", " ", "rel", "=", "\"", rel, "\"">>

\* additional_headers: empty, or one header of the present links joined by ","
AdditionalHeaders(name, field, ls) ==
    IF PresentLinks(ls) = <<>> THEN <<>>
    ELSE <<<<name,
             Join([i \in 1..Len(PresentLinks(ls)) |->
                      LinkEntry(PresentLinks(ls)[i][field], PresentLinks(ls)[i].rel)],
                  <<",">>)>>>>

\* item_collection and get_search: additional_headers["Link"] from link["href"]
GetAdditionalHeaders(ls) == AdditionalHeaders("Link", "href", ls)

\* a post_search that builds the header of the GET handlers
LinkHeaderOnPost(ls) == AdditionalHeaders("Link", "href", ls)

\* post_search: additional_headers["Pagination-Token"] from link["body"]["token"]
PostAdditionalHeaders(ls) == AdditionalHeaders("Pagination-Token", "token", ls)

\* headers made of the additional headers alone
AdditionalOnly(filename, additional) == additional

\* headers={"Content-Disposition": "attachment;filename=...", **additional_headers}
StreamHeaders(filename, additional) ==
    DictUpdate(<<<<"Content-Disposition",
                   <<"attachment", ";", "filename", "=", filename>>>>>>,
               additional)

\* the headers each handler passes to its response, by output_type
NoHeaders == [o \in DOMAIN MimeTypes \cup {None} |-> <<>>]
MultiHeaders(additional) ==
    [o \in DOMAIN MimeTypes \cup {None} |->
        IF o = "html" THEN <<>>
        ELSE IF o = "csv" THEN StreamHeaders("items.csv", additional)
        ELSE IF o = "geojsonseq" THEN StreamHeaders("items.geojson", additional)
        ELSE <<>>]
PostHeaders(additional) ==
    [o \in DOMAIN MimeTypes \cup {None} |->
        IF o = "csv" THEN StreamHeaders("items.csv", additional)
        ELSE IF o = "geojsonseq" THEN StreamHeaders("items.geojson", additional)
        ELSE <<>>]

\* the answer of one handler run: a rejected query parameter, an exception
\* of the handler, or the rendered representation
Answer(validated, outcomes, render, headers) ==
    IF ~validated
    THEN {[status |-> "RequestValidationError", output_type |-> None,
           body |-> "error", headers |-> <<>>]}
    ELSE {[status |-> IF o.exc = "" THEN "ok" ELSE o.exc,
           output_type |-> o.value,
           body |-> IF o.exc = "" THEN render[o.value] ELSE "error",
           headers |-> IF o.exc = "" THEN headers[o.value] ELSE <<>>] :
            o \in outcomes}

\* one run of the handler of endpoint ep on the request
Serve(ep, answers) ==
    /\ request.endpoint = ep
    /\ runs < MaxRuns
    /\ \E a \in answers : response' = a
    /\ prev' = response
    /\ runs' = runs + 1
    /\ UNCHANGED <<outside, other, links, request, items, with_geometry, rows_pos, pc, fieldnames,
                   row, out, exc>>

Validated(f, literal) == f = None \/ f \in literal

get_queryables ==
    Serve("get_queryables",
          Answer(Validated(request.f, HTMLorSchemaGetRequest),
                 OutputTypes(request.f, request.accept, QueryablesResponseType),
                 Renderers.schema,
                 NoHeaders))

landing_page ==
    Serve("landing_page",
          Answer(Validated(request.f, HTMLorJSONGetRequest),
                 OutputTypes(request.f, request.accept, ResponseType),
                 Renderers.json,
                 NoHeaders))

conformance ==
    Serve("conformance",
          Answer(Validated(request.f, HTMLorJSONGetRequest),
                 OutputTypes(request.f, request.accept, ResponseType),
                 Renderers.json,
                 NoHeaders))

all_collections ==
    Serve("all_collections",
          Answer(Validated(request.f, HTMLorJSONGetRequest),
                 OutputTypes(request.f, request.accept, ResponseType),
                 Renderers.json,
                 NoHeaders))

get_collection ==
    Serve("get_collection",
          Answer(Validated(request.f, HTMLorJSONGetRequest),
                 OutputTypes(request.f, request.accept, ResponseType),
                 Renderers.json,
                 NoHeaders))

item_collection ==
    Serve("item_collection",
          Answer(Validated(request.f, HTMLorGeoGetRequestMulti),
                 OutputTypes(request.f, request.accept, GeoMultiResponseType),
                 Renderers.multi,
                 MultiHeaders(GetAdditionalHeaders(links))))

get_item ==
    Serve("get_item",
          Answer(Validated(request.f, HTMLorGeoGetRequest),
                 OutputTypes(request.f, request.accept, GeoResponseType),
                 Renderers.geo,
                 NoHeaders))

get_search ==
    Serve("get_search",
          Answer(Validated(request.f, HTMLorGeoGetRequestMulti),
                 OutputTypes(request.f, request.accept, GeoMultiResponseType),
                 Renderers.multi,
                 MultiHeaders(GetAdditionalHeaders(links))))

\* post_search takes no f
post_search ==
    Serve("post_search",
          Answer(TRUE,
                 accept_media_type(request.accept, PostMultiResponseType),
                 Renderers.post,
                 PostHeaders(PostAdditionalHeaders(links))))

raster_landing ==
    Serve("raster_landing",
          Answer(Validated(request.f, RasterFLiteral),
                 RasterOutputTypes(request.f, request.accept, RasterAcceptedMedia),
                 Renderers.json,
                 NoHeaders))

raster_conformance ==
    Serve("raster_conformance",
          Answer(Validated(request.f, RasterFLiteral),
                 RasterOutputTypes(request.f, request.accept, RasterAcceptedMedia),
                 Renderers.json,
                 NoHeaders))

\* the accepted media and the f values of each endpoint
AcceptedMedia ==
    [get_queryables |-> QueryablesResponseType,
     landing_page |-> ResponseType,
     conformance |-> ResponseType,
     all_collections |-> ResponseType,
     get_collection |-> ResponseType,
     item_collection |-> GeoMultiResponseType,
     get_item |-> GeoResponseType,
     get_search |-> GeoMultiResponseType,
     post_search |-> PostMultiResponseType,
     raster_landing |-> RasterAcceptedMedia,
     raster_conformance |-> RasterAcceptedMedia]

Endpoints == DOMAIN AcceptedMedia
StacEndpoints == Endpoints \ {"raster_landing", "raster_conformance"}
Range(s) == {s[i] : i \in 1..Len(s)}
Supported(ep) == Range(AcceptedMedia[ep])

-----------------------------------------------------------------------------
(* The requests of the model *)

Q(name, qvalue) == <<name, ";", "q", "=">> \o qvalue

\* the entries an Accept header of the model is made of
Entries ==
    {<<"text/html">>, Q("text/html", <<"0.5">>), Q("text/html", <<"0">>),
     Q("text/html", <<"abc">>), Q("text/html", <<>>), <<"text/html", ";", "q">>,
     <<"application/json">>,
     <<"text/csv">>,
     <<"*">>, Q("*", <<"nan">>), Q("*", <<"0">>),
     <<"*/*">>}

\* the header "a, b, c" made of the entries es; no entry is the empty header
Header(es) == Join(es, <<",", " ">>)

\* the values of f sent to endpoint ep along with a header of n entries
FValues(ep, n) ==
    {None} \cup (IF ep # "post_search" /\ n <= MaxEntriesF
                 THEN DOMAIN MimeTypes ELSE {})

\* the links of a page: self, then next and prev as the database gives them
Link(rel) ==
    [rel |-> rel,
     href |-> IF rel = "next" THEN "http://api/search?token=next:b"
              ELSE IF rel = "self" THEN "http://api/search"
              ELSE "http://api/search?token=prev:a",
     token |-> IF rel = "next" THEN "next:b"
               ELSE IF rel = "self" THEN None ELSE "prev:a"]
PageLinks ==
    {<<Link("self")>> \o ls :
        ls \in {<<>>, <<Link("next")>>, <<Link("prev")>>, <<Link("previous")>>,
                <<Link("next"), Link("prev")>>, <<Link("next"), Link("previous")>>,
                <<Link("prev"), Link("next")>>, <<Link("previous"), Link("next")>>}}
\* a page that is the only one
NoPaging == <<Link("self")>>

\* the server handles one request only
NoTask == [id |-> 0]

\* no page is being rendered
NoPage == [root_path |-> <<>>, router_prefix |-> <<>>, segments |-> <<>>]
NoContext == [crumbs |-> <<>>, url |-> <<>>, api_root |-> <<>>]
HtmlIdle == page = NoPage /\ context = NoContext

\* add_route_dependencies has not been called
NoCall == [scopes |-> <<>>, dependencies |-> <<>>, done |-> FALSE]
RoutesIdle == routes = <<>> /\ route_call = NoCall

\* no AppConfig has been constructed
NoConfig ==
    [public_db_subnet |-> TRUE, nat_gateway_count |-> 0,
     acm_certificate_arn |-> None, stac_api_custom_domain |-> None,
     raster_api_custom_domain |-> None, vector_api_custom_domain |-> None,
     stac_ingestor_api_custom_domain |-> None, stac_browser_version |-> None]
ConfigIdle == config = NoConfig /\ built = "none"

\* the handlers give items_to_csv_rows a list: item_collection["features"]
GivenList == single_pass = FALSE

\* no Lambda execution environment is modelled: no pool, no hook
NoPools == [dbpool |-> 0, readpool |-> 0, writepool |-> 0]
NoHook ==
    [name |-> "none", result |-> "none", before |-> {}, close_raised |-> {},
     connect |-> "none", initialized_before |-> FALSE]
HooksIdle ==
    /\ lambda_app = [app |-> "none", enable_transaction |-> FALSE]
    /\ attached = NoPools
    /\ pools = <<>>
    /\ connection_initialized = FALSE
    /\ hook = NoHook
    /\ hooks_run = 0

\* user_token has not been called
NoToken == [kind |-> None, scope |-> [form |-> "absent", str |-> <<>>, list |-> <<>>]]
NoTokenResult == [status |-> "idle"]
AuthIdle ==
    /\ token_str = <<>>
    /\ required_scopes = <<>>
    /\ jwt_token = NoToken
    /\ token_result = NoTokenResult

\* nothing has happened yet outside the parts named in S
IdleBut(S) ==
    /\ IF "html" \in S THEN TRUE ELSE HtmlIdle
    /\ IF "routes" \in S THEN TRUE ELSE RoutesIdle
    /\ IF "config" \in S THEN TRUE ELSE ConfigIdle
    /\ IF "lazy" \in S THEN TRUE ELSE GivenList
    /\ IF "hooks" \in S THEN TRUE ELSE HooksIdle
    /\ IF "auth" \in S THEN TRUE ELSE AuthIdle

\* no CSV export is under way
CsvIdle ==
    /\ with_geometry = FALSE
    /\ rows_pos = 1
    /\ pc = "idle"
    /\ fieldnames = <<>>
    /\ row = <<>>
    /\ out = <<>>
    /\ exc = None

Init ==
    /\ \E ep \in Endpoints, n \in 0..MaxEntries :
         \E es \in [1..n -> Entries], f \in FValues(ep, n) :
            request = [endpoint |-> ep, f |-> f, accept |-> Header(es)]
    /\ links = NoPaging
    /\ runs = 0
    /\ response = NoResponse
    /\ prev = NoResponse
    /\ other = NoTask
    /\ IdleBut({})
    /\ items = <<>>
    /\ CsvIdle

Next ==
    \/ get_queryables
    \/ landing_page
    \/ conformance
    \/ all_collections
    \/ get_collection
    \/ item_collection
    \/ get_item
    \/ get_search
    \/ post_search
    \/ raster_landing
    \/ raster_conformance

Spec == Init /\ [][Next]_vars

\* the three handlers of paged results, on every choice of page links
PagedEndpoints == {"item_collection", "get_search", "post_search"}

InitPaged ==
    /\ \E ep \in PagedEndpoints, n \in 0..MaxEntriesF :
         \E es \in [1..n -> Entries], f \in FValues(ep, n) :
            request = [endpoint |-> ep, f |-> f, accept |-> Header(es)]
    /\ links \in PageLinks
    /\ runs = 0
    /\ response = NoResponse
    /\ prev = NoResponse
    /\ other = NoTask
    /\ IdleBut({})
    /\ items = <<>>
    /\ CsvIdle

NextPaged ==
    \/ item_collection
    \/ get_search
    \/ post_search

SpecPaged == InitPaged /\ [][NextPaged]_vars

-----------------------------------------------------------------------------
(* Vocabulary of the properties of negotiation *)

Done == runs >= 1
NoOverride == request.f = None
Index(seq, x) == CHOOSE i \in 1..Len(seq) : seq[i] = x

\* the entries of the header and the media-type names they carry
HeaderEntries == Range(Split(Replace(request.accept, " "), ","))
NameOf(m) == Split(m, ";")[1]
RawNames == {NameOf(m) : m \in HeaderEntries}
SupportedValues == {MimeTypes[m] : m \in Supported(request.endpoint)}
Wildcards == {<<"*">>, <<"*/*">>}

\* the preference mapping of the request's header
Preference == AcceptValues(request.accept)
Parsed == ~Preference.raised
\* the supported members the mapping names
NamedSupported ==
    {m \in Supported(request.endpoint) : MimeTypes[m] \in DOMAIN Preference.values}
QualityOfMember(m) == Preference.values[MimeTypes[m]]

\* the representation an endpoint renders when nothing is selected
DefaultBody ==
    [get_queryables |-> "jsonschema",
     landing_page |-> "json",
     conformance |-> "json",
     all_collections |-> "json",
     get_collection |-> "json",
     item_collection |-> "geojson",
     get_item |-> "geojson",
     get_search |-> "geojson",
     post_search |-> "geojson",
     raster_landing |-> "json",
     raster_conformance |-> "json"]

\* the q parameter of an entry, as written: absent, without a single "=",
\* or a value
QWritten(m) ==
    LET pairs == ParamPairs(Split(m, ";"))
        qs == {i \in 1..Len(pairs) : pairs[i][1] = <<"q">>}
    IN  IF qs = {} THEN [kind |-> "absent", val |-> <<>>]
        ELSE IF Len(pairs[SetMax(qs)]) # 2 THEN [kind |-> "novalue", val |-> <<>>]
        ELSE [kind |-> "value", val |-> pairs[SetMax(qs)][2]]
NumericLiterals == {<<"0">>, <<"0.5">>, <<"0.8">>, <<"1">>, <<"2">>, <<"-1">>}
\* q is 0 or is not a number
ZeroOrMalformed(m) ==
    \/ QWritten(m).kind = "novalue"
    \/ /\ QWritten(m).kind = "value"
       /\ QWritten(m).val \notin (NumericLiterals \ {<<"0">>})

-----------------------------------------------------------------------------
(* Properties of format negotiation, stated for Spec *)

\* C1: whatever the Accept header and the accepted f, the MediaType a handler
\* settles on is one of the endpoint's supported MediaTypes or none at all.
C1_SelectedWithinSupported ==
    (Done /\ response.status = "ok")
        => response.output_type \in Supported(request.endpoint) \cup {None}

C3_UnsupportedOverrideFails ==
    (Done /\ ~NoOverride /\ request.f \notin Supported(request.endpoint))
        => response.status = "RequestValidationError"

\* C4: without f, the selected MediaType is a supported type named in the
\* header, no other named supported type has a higher quality, and among
\* those of equal quality it comes first in the endpoint's supported order.
C4_HighestQualityFirstSupported ==
    (Done /\ NoOverride /\ Parsed /\ NamedSupported # {})
        => /\ response.status = "ok"
           /\ response.output_type \in NamedSupported
           /\ \A m \in NamedSupported :
                LET sel == response.output_type
                    order == AcceptedMedia[request.endpoint]
                IN  /\ ~FloatGt(QualityOfMember(m), QualityOfMember(sel))
                    /\ FloatEq(QualityOfMember(m), QualityOfMember(sel))
                         => Index(order, sel) <= Index(order, m)

\* C5: without f, a header that names no supported type but holds a wildcard,
\* "*" or "*/*", with non-zero quality selects the first supported MediaType.
C5_WildcardSelectsFirst ==
    (Done /\ NoOverride /\ Parsed /\ NamedSupported = {}
          /\ Wildcards \cap DOMAIN Preference.values # {})
        => response.output_type = AcceptedMedia[request.endpoint][1]

\* C6: without f, a header naming neither a supported type nor a wildcard
\* selects nothing and is answered in the endpoint's default representation.
C6_NothingSelectedDefault ==
    (Done /\ NoOverride /\ RawNames \cap (SupportedValues \cup Wildcards) = {})
        => /\ response.status = "ok"
           /\ request.endpoint \in StacEndpoints => response.output_type = None
           /\ response.body = DefaultBody[request.endpoint]

\* C7: a second run of the handler on the same request gives the answer of
\* the first.
C7_Deterministic ==
    runs >= 2 => response = prev

\* C8: no run raises on the header; a type all of whose entries carry a q
\* that is 0 or not a number is not selected; an entry without q weighs 1.0.
C8_ZeroOrMalformedDropped ==
    (Done /\ NoOverride)
        => /\ response.status = "ok"
           /\ \A m \in Supported(request.endpoint) :
                (/\ \E e \in HeaderEntries : NameOf(e) = MimeTypes[m]
                 /\ \A e \in HeaderEntries :
                        NameOf(e) = MimeTypes[m] => ZeroOrMalformed(e)
                 /\ RawNames \cap Wildcards = {})
                    => response.output_type # m
           /\ \A e \in HeaderEntries :
                (QWritten(e).kind = "absent"
                    /\ \A e2 \in HeaderEntries : NameOf(e2) = NameOf(e) => e2 = e)
                    => /\ NameOf(e) \in DOMAIN Preference.values
                       /\ Preference.values[NameOf(e)] = One

-----------------------------------------------------------------------------
(* items_to_csv_rows and _create_csv_rows *)

\* parse_geometry_obj(g).wkt
Wkt(g) == "POLYGON ((0 0, 1 0, 1 1, 0 0))"

\* a projection that leaves the properties out
ProjectIdentity(f, geom) ==
    LET ids == <<<<"itemId", f.id>>, <<"collectionId", f.collection>>>>
    IN  IF geom THEN DictSet(ids, "geometry", Wkt(f.geometry)) ELSE ids

\* a `rows` generator that yields a row for a feature without geometry
NeverRaises(f, geom) == FALSE

\* one element of the `rows` generator expression, lines 189-194 and 199-203
ProjectRaises(f, geom) == geom /\ f.geometry = None
Project(f, geom) ==
    LET ids == <<<<"itemId", f.id>>, <<"collectionId", f.collection>>>>
        flat == DictUpdate(ids, f.properties)
    IN  IF geom THEN DictSet(flat, "geometry", Wkt(f.geometry)) ELSE flat

\* dict(zip(ks, vs))
Zip(ks, vs) == [i \in 1..Len(ks) |-> <<ks[i], vs[i]>>]

\* a writer putting the values of a row in the row's own order
RowOrderList(rowdict, names) == [i \in 1..Len(rowdict) |-> rowdict[i][2]]

\* a writer that lets the extra keys of a row pass (extrasaction="ignore")
NoWrongFields(rowdict, names) == {}

\* csv.DictWriter._dict_to_list: extrasaction="raise", restval=""
WrongFields(rowdict, names) == KeySet(rowdict) \ Range(names)
DictToList(rowdict, names) ==
    [i \in 1..Len(names) |-> Get(rowdict, names[i], "")]

\* where any(...) leaves an iterator: behind the first feature that has a
\* geometry, or at the end
AfterAny(its) ==
    LET with == {i \in 1..Len(its) : its[i].geometry # None}
    IN  IF with = {} THEN Len(its) + 1 ELSE SetMin(with) + 1

\* `if any(f.get("geometry", None) is not None for f in items)` chooses the
\* generator expression; _create_csv_rows(rows) only creates the generator
items_to_csv_rows ==
    /\ pc = "idle"
    /\ with_geometry' = (\E i \in 1..Len(items) : items[i].geometry # None)
    /\ rows_pos' = IF single_pass THEN AfterAny(items) ELSE 1
    /\ pc' = "created"
    /\ UNCHANGED <<outside, other, links, request, runs, response, prev, items, fieldnames, row, out, exc>>

\* first resumption: `row = next(data)` up to the yield of the header.  A
\* StopIteration leaving a generator body becomes RuntimeError (PEP 479).
create_csv_rows_header ==
    /\ pc = "created"
    /\ IF rows_pos > Len(items)
       THEN /\ pc' = "raised"
            /\ exc' = "RuntimeError"
            /\ UNCHANGED <<rows_pos, row, fieldnames, out>>
       ELSE IF ProjectRaises(items[rows_pos], with_geometry)
       THEN /\ pc' = "raised"
            /\ exc' = "TypeError"
            /\ rows_pos' = rows_pos + 1
            /\ UNCHANGED <<row, fieldnames, out>>
       ELSE /\ row' = Project(items[rows_pos], with_geometry)
            /\ rows_pos' = rows_pos + 1
            /\ fieldnames' = Keys(row')
            /\ out' = Append(out, DictToList(Zip(fieldnames', fieldnames'), fieldnames'))
            /\ pc' = "header"
            /\ exc' = exc
    /\ UNCHANGED <<outside, other, links, request, runs, response, prev, items, with_geometry>>

\* second resumption: `yield writer.writerow(row)` of the first row
create_csv_rows_first ==
    /\ pc = "header"
    /\ out' = Append(out, DictToList(row, fieldnames))
    /\ pc' = "first"
    /\ UNCHANGED <<outside, other, links, request, runs, response, prev, items, with_geometry,
                   rows_pos, fieldnames, row, exc>>

\* later resumptions: one turn of `for row in data`
create_csv_rows_loop ==
    /\ pc \in {"first", "loop"}
    /\ IF rows_pos > Len(items)
       THEN /\ pc' = "returned"
            /\ UNCHANGED <<rows_pos, row, out, exc>>
       ELSE IF ProjectRaises(items[rows_pos], with_geometry)
       THEN /\ pc' = "raised"
            /\ exc' = "TypeError"
            /\ rows_pos' = rows_pos + 1
            /\ UNCHANGED <<row, out>>
       ELSE /\ row' = Project(items[rows_pos], with_geometry)
            /\ rows_pos' = rows_pos + 1
            /\ IF WrongFields(row', fieldnames) # {}
               THEN /\ pc' = "raised"
                    /\ exc' = "ValueError"
                    /\ out' = out
               ELSE /\ pc' = "loop"
                    /\ exc' = exc
                    /\ out' = Append(out, DictToList(row', fieldnames))
    /\ UNCHANGED <<outside, other, links, request, runs, response, prev, items, with_geometry, fieldnames>>

-----------------------------------------------------------------------------
(* The pages of the model *)

Ids == <<"a", "b", "c", "d", "e">>
PropertyValues ==
    [x |-> <<"x1", "x2", "x3", "x4", "x5">>,
     y |-> <<"y1", "y2", "y3", "y4", "y5">>,
     itemId |-> <<"p1", "p2", "p3", "p4", "p5">>,
     geometry |-> <<"g1", "g2", "g3", "g4", "g5">>,
     note |-> <<"l1\nl2", "n2", "l1\nl2", "n4", "l1\nl2">>]
KeyOrders == {<<>>, <<"x">>, <<"y">>, <<"x", "y">>, <<"y", "x">>}
\* also properties named like a column the projection sets itself
KeyOrdersWide == KeyOrders \cup {<<"itemId">>, <<"geometry", "x">>}
Geometries == {None, "Polygon"}

\* the i-th feature of a page, with the given property keys and geometry
Feature(i, ks, g) ==
    [type |-> "Feature",
     id |-> Ids[i],
     collection |-> "c1",
     properties |-> [j \in 1..Len(ks) |-> <<ks[j], PropertyValues[ks[j]][i]>>],
     geometry |-> g]

\* the page of the features chosen by c: keys and geometry of each
Page(c) == [i \in DOMAIN c |-> Feature(i, c[i][1], c[i][2])]

\* the request whose answer is the CSV export
CsvRequest == [endpoint |-> "get_search", f |-> "csv", accept |-> <<>>]

InitCsv ==
    /\ request = CsvRequest
    /\ links = NoPaging
    /\ runs = 1
    /\ response = [status |-> "ok", output_type |-> "csv", body |-> "csv",
                   headers |-> StreamHeaders("items.csv", <<>>)]
    /\ prev = NoResponse
    /\ other = NoTask
    /\ IdleBut({})
    /\ \E n \in 0..MaxItems :
         \E c \in [1..n -> KeyOrders \X Geometries] : items = Page(c)
    /\ CsvIdle

NextCsv ==
    \/ items_to_csv_rows
    \/ create_csv_rows_header
    \/ create_csv_rows_first
    \/ create_csv_rows_loop

SpecCsv == InitCsv /\ [][NextCsv]_vars

\* the same export on pages with the wider choice of property names
InitProjector ==
    /\ request = CsvRequest
    /\ links = NoPaging
    /\ runs = 1
    /\ response = [status |-> "ok", output_type |-> "csv", body |-> "csv",
                   headers |-> StreamHeaders("items.csv", <<>>)]
    /\ prev = NoResponse
    /\ other = NoTask
    /\ IdleBut({})
    /\ \E n \in 0..MaxItems :
         \E c \in [1..n -> KeyOrdersWide \X Geometries] : items = Page(c)
    /\ CsvIdle

SpecProjector == InitProjector /\ [][NextCsv]_vars

-----------------------------------------------------------------------------
(* The newline-delimited GeoJSON stream of item_collection and get_search:   *)
(* (orjson.dumps(f) + b"\n" for f in item_collection["features"])            *)

\* the strings of the model that hold a line feed, and their JSON escape
HasNewline(a) == a \in {"\n", "l1\nl2"}
Escaped(a) == IF a = "l1\nl2" THEN "l1\\nl2" ELSE a

\* orjson.dumps of a str, of a flat dict of strings, of a geometry
JsonStr(a) == <<"\"", Escaped(a), "\"">>
RECURSIVE JsonMembers(_)
JsonMembers(d) ==
    IF d = <<>> THEN <<>>
    ELSE JsonStr(d[1][1]) \o <<":">> \o JsonStr(d[1][2])
         \o (IF Len(d) = 1 THEN <<>> ELSE <<",">> \o JsonMembers(Tail(d)))
JsonDict(d) == <<"{">> \o JsonMembers(d) \o <<"}">>
JsonGeometry(g) ==
    IF g = None THEN <<"null">>
    ELSE <<"{">> \o JsonStr("type") \o <<":">> \o JsonStr(g) \o <<",">>
         \o JsonStr("coordinates") \o <<":", "[[[0,0],[1,0],[1,1],[0,0]]]", "}">>

\* orjson.dumps(f): compact, no line feed outside or inside a string
Dumps(f) ==
    <<"{">> \o JsonStr("type") \o <<":">> \o JsonStr(f.type) \o <<",">>
    \o JsonStr("id") \o <<":">> \o JsonStr(f.id) \o <<",">>
    \o JsonStr("collection") \o <<":">> \o JsonStr(f.collection) \o <<",">>
    \o JsonStr("properties") \o <<":">> \o JsonDict(f.properties) \o <<",">>
    \o JsonStr("geometry") \o <<":">> \o JsonGeometry(f.geometry) \o <<"}">>

\* an element of the generator expression written without its line feed
DumpsOnly(f) == Dumps(f)

\* orjson.dumps(f) + b"\n"
SeqChunk(f) == Dumps(f) \o <<"\n">>

\* the handler builds the generator expression for the StreamingResponse
geojsonseq_stream ==
    /\ pc = "idle"
    /\ rows_pos' = 1
    /\ pc' = "seq"
    /\ UNCHANGED <<outside, other, links, request, runs, response, prev, items, with_geometry,
                   fieldnames, row, out, exc>>

\* one resumption of the generator expression
geojsonseq_next ==
    /\ pc = "seq"
    /\ IF rows_pos > Len(items)
       THEN /\ pc' = "returned"
            /\ UNCHANGED <<rows_pos, out>>
       ELSE /\ out' = Append(out, SeqChunk(items[rows_pos]))
            /\ rows_pos' = rows_pos + 1
            /\ pc' = pc
    /\ UNCHANGED <<outside, other, links, request, runs, response, prev, items, with_geometry,
                   fieldnames, row, exc>>

KeyOrdersSeq == {<<>>, <<"x">>, <<"note">>, <<"x", "note">>}
SeqRequest == [endpoint |-> "get_search", f |-> "geojsonseq", accept |-> <<>>]

InitSeq ==
    /\ request = SeqRequest
    /\ links = NoPaging
    /\ runs = 1
    /\ response = [status |-> "ok", output_type |-> "geojsonseq",
                   body |-> "geojsonseq",
                   headers |-> StreamHeaders("items.geojson", <<>>)]
    /\ prev = NoResponse
    /\ other = NoTask
    /\ IdleBut({})
    /\ \E n \in 0..MaxItems :
         \E c \in [1..n -> KeyOrdersSeq \X Geometries] : items = Page(c)
    /\ CsvIdle

NextSeq ==
    \/ geojsonseq_stream
    \/ geojsonseq_next

SpecSeq == InitSeq /\ [][NextSeq]_vars

\* C15: n records give exactly n chunks in input order; each chunk is the
\* JSON object of one record followed by one line feed, the only line feed
\* of the chunk; there is no enclosing array, separator or extra chunk.
C15_OneJsonLinePerRecord ==
    /\ Len(out) <= Len(items)
    /\ pc = "returned" => Len(out) = Len(items)
    /\ \A j \in 1..Len(out) :
         LET chunk == out[j]
             n == Len(chunk)
         IN  /\ n >= 2
             /\ chunk[n] = "\n"
             /\ \A m \in 1..(n - 1) : ~HasNewline(chunk[m])
             /\ chunk[1] = "{" /\ chunk[n - 1] = "}"
             /\ SubSeq(chunk, 1, n - 1) = Dumps(items[j])

C15_Witness ==
    /\ pc = "returned"
    /\ Len(items) = 2
    /\ Keys(items[1].properties) = <<"x", "note">>
    /\ items[2].geometry # None
    /\ Len(out) = 2
    /\ \E m \in 1..Len(out[1]) : out[1][m] = "l1\\nl2"

-----------------------------------------------------------------------------
(* Properties of the CSV encoder, stated for SpecCsv *)

Started == pc \notin {"idle", "created"}

\* C9: the export of an empty page ends normally with no chunk at all.
C9_EmptyPageEmptyStream ==
    (items = <<>> /\ Started) => (pc = "returned" /\ out = <<>> /\ exc = None)

\* the records have the columns of the first, and all or none has a geometry
SameColumns ==
    /\ items # <<>>
    /\ \A i \in 1..Len(items) :
          /\ KeySet(items[i].properties) = KeySet(items[1].properties)
          /\ (items[i].geometry = None) = (items[1].geometry = None)

ExpectedHeader ==
    <<"itemId", "collectionId">> \o Keys(items[1].properties)
        \o (IF items[1].geometry = None THEN <<>> ELSE <<"geometry">>)
ExpectedCell(i, column) ==
    IF column = "itemId" THEN items[i].id
    ELSE IF column = "collectionId" THEN items[i].collection
    ELSE IF column = "geometry" THEN Wkt(items[i].geometry)
    ELSE PropertyValues[column][i]
ExpectedChunks ==
    <<ExpectedHeader>> \o
    [i \in 1..Len(items) |->
        [j \in 1..Len(ExpectedHeader) |-> ExpectedCell(i, ExpectedHeader[j])]]

\* C10: n records with the same columns give n+1 chunks: the header in the
\* first record's order, then one row per record in input order with its
\* values under the header's columns; then the generator returns.
C10_HeaderThenRows ==
    SameColumns
        => /\ exc = None
           /\ Len(out) <= Len(ExpectedChunks)
           /\ out = SubSeq(ExpectedChunks, 1, Len(out))
           /\ pc = "returned" => Len(out) = Len(items) + 1

C10_Witness ==
    /\ pc = "returned"
    /\ Len(items) = 2
    /\ Keys(items[1].properties) = <<"x", "y">>
    /\ Keys(items[2].properties) = <<"y", "x">>
    /\ out = <<<<"itemId", "collectionId", "x", "y">>,
               <<"a", "c1", "x1", "y1">>,
               <<"b", "c1", "x2", "y2">>>>

\* every feature can be projected: if one has a geometry, all have
AllProject ==
    (\E i \in 1..Len(items) : items[i].geometry # None)
        => \A i \in 1..Len(items) : items[i].geometry # None

\* the columns of the record projected from the i-th feature
Columns(i) ==
    {"itemId", "collectionId"} \cup KeySet(items[i].properties)
        \cup (IF items[i].geometry = None THEN {} ELSE {"geometry"})

\* later records with a column the first record lacks, resp. lacking one of
\* the first record's columns
ExtraAt == {i \in 2..Len(items) : ~(Columns(i) \subseteq Columns(1))}
MissingAt == {i \in 2..Len(items) : ~(Columns(1) \subseteq Columns(i))}

\* C11: when a later record has a column the header lacks, the generator
\* fails on reading that record: the chunks are the header and one full row
\* for each earlier record, nothing of the offending record, and the
\* generator never returns normally.
C11_ExtraColumnFailsBeforeRow ==
    (AllProject /\ ExtraAt # {})
        => LET k == SetMin(ExtraAt)
           IN  /\ Len(out) <= k
               /\ pc # "returned"
               /\ rows_pos > k => (pc = "raised" /\ exc = "ValueError")
               /\ out # <<>> => out[1] = ExpectedHeader
               /\ \A j \in 2..Len(out) :
                    /\ Len(out[j]) = Len(ExpectedHeader)
                    /\ \A n \in 1..Len(ExpectedHeader) :
                          ExpectedHeader[n] \in Columns(j - 1)
                            => out[j][n] = ExpectedCell(j - 1, ExpectedHeader[n])

C11_Witness ==
    /\ pc = "raised"
    /\ exc = "ValueError"
    /\ Len(items) = 3
    /\ Keys(items[1].properties) = <<"x">>
    /\ Keys(items[2].properties) = <<"x">>
    /\ Keys(items[3].properties) = <<"x", "y">>
    /\ out = <<<<"itemId", "collectionId", "x">>,
               <<"a", "c1", "x1">>,
               <<"b", "c1", "x2">>>>

\* C12: when a later record lacks a column of the header, the generator
\* fails on reading that record and no row is ever emitted for it.
C12_MissingColumnFails ==
    (AllProject /\ MissingAt # {})
        => LET k == SetMin(MissingAt)
           IN  /\ Len(out) <= k
               /\ pc # "returned"
               /\ rows_pos > k => pc = "raised"

\* the features on which the `rows` generator raises while _create_csv_rows
\* consumes it: those without a geometry on a page where some feature has one
FailsAt ==
    {i \in 1..Len(items) :
        /\ items[i].geometry = None
        /\ \E j \in 1..Len(items) : items[j].geometry # None}

\* C19: when the producer of the records raises while the encoder consumes
\* it, the encoder ends with that very exception on reading the record: the
\* chunks are those of the earlier records, none follows, and the encoder
\* never returns normally.
C19_UpstreamFailurePropagates ==
    FailsAt # {}
        => LET k == SetMin(FailsAt)
               before == IF k = 1 THEN 0 ELSE k
           IN  /\ pc # "returned"
               /\ Len(out) <= before
               /\ exc = "TypeError" => (pc = "raised" /\ rows_pos = k + 1)
               /\ rows_pos > k
                     => /\ pc = "raised"
                        /\ exc = "TypeError"
                        /\ Len(out) = before
               /\ out # <<>> => out[1] = ExpectedHeader

C19_Witness ==
    /\ pc = "raised"
    /\ exc = "TypeError"
    /\ Len(items) = 3
    /\ items[1].geometry # None
    /\ items[2].geometry # None
    /\ items[3].geometry = None
    /\ Keys(items[3].properties) = <<"x">>
    /\ out = <<<<"itemId", "collectionId", "x", "geometry">>,
               <<"a", "c1", "x1", Wkt("Polygon")>>,
               <<"b", "c1", "x2", Wkt("Polygon")>>>>

-----------------------------------------------------------------------------
(* Properties of the row projection, stated for SpecProjector *)

\* the feature the local `row` was projected from
Projected == row # <<>> /\ exc # "TypeError"
Source == items[rows_pos - 1]

\* C13: every projected row has itemId then collectionId as its first two
\* columns (holding id and collection unless a property of that name
\* replaces the value), and the geometry of a record that has one is exactly
\* one column named geometry holding the WKT string; two records of id,
\* collection and geometry give the header and two rows.
C13_IdentityColumnsThenGeometry ==
    /\ Projected =>
        /\ Len(row) >= 2
        /\ row[1][1] = "itemId" /\ row[2][1] = "collectionId"
        /\ "itemId" \notin KeySet(Source.properties) => row[1][2] = Source.id
        /\ "collectionId" \notin KeySet(Source.properties)
              => row[2][2] = Source.collection
        /\ Source.geometry # None =>
              /\ Cardinality({n \in 1..Len(row) : row[n][1] = "geometry"}) = 1
              /\ Get(row, "geometry", None) = Wkt(Source.geometry)
    /\ (/\ Len(items) = 2 /\ pc = "returned"
        /\ \A i \in 1..2 : items[i].properties = <<>> /\ items[i].geometry # None)
          => out = <<<<"itemId", "collectionId", "geometry">>,
                     <<"a", "c1", Wkt("Polygon")>>,
                     <<"b", "c1", Wkt("Polygon")>>>>

C13_Witness ==
    /\ pc = "returned"
    /\ Len(items) = 2
    /\ Keys(items[1].properties) = <<"geometry", "x">>
    /\ Keys(items[2].properties) = <<"geometry", "x">>
    /\ items[2].geometry # None
    /\ Keys(row) = <<"itemId", "collectionId", "geometry", "x">>
    /\ Len(out) = 3

\* C14: every top-level field of the record other than geometry has its
\* value in some column of the projected row (stated for the fields holding
\* a string: type, id and collection).
C14_TopLevelFieldsCopied ==
    Projected =>
        \A k \in (DOMAIN Source) \ {"geometry", "properties"} :
            \E n \in 1..Len(row) : row[n][2] = Source[k]

\* C14 as amended: every field of the record's properties, other than one
\* named geometry, is a column of the projected row with the field's value.
C14_PropertiesCopied ==
    Projected =>
        \A n \in 1..Len(Source.properties) :
            LET k == Source.properties[n][1]
            IN  k # "geometry" =>
                  /\ k \in KeySet(row)
                  /\ Get(row, k, None) = Source.properties[n][2]

C14_Witness ==
    /\ Projected
    /\ Keys(Source.properties) = <<"y", "x">>
    /\ Source.geometry # None
    /\ row = <<<<"itemId", "b">>, <<"collectionId", "c1">>, <<"y", "y2">>,
               <<"x", "x2">>, <<"geometry", Wkt("Polygon")>>>>

-----------------------------------------------------------------------------
(* Properties of the response headers, stated for SpecPaged *)

Answered == runs >= 1 /\ response.status = "ok"
Streamed == response.body \in {"csv", "geojsonseq"}
IsGet == request.endpoint \in {"item_collection", "get_search"}
HeaderCount(name) ==
    Cardinality({n \in 1..Len(response.headers) : response.headers[n][1] = name})
HeaderValue(name) == Get(response.headers, name, None)

\* the relations the page has, and the entry each gives
NextRels == {links[i].rel : i \in 1..Len(links)} \cap {"next"}
PrevRels == {links[i].rel : i \in 1..Len(links)} \cap {"prev", "previous"}
ExpectedEntries(next_target, prev_target) ==
    (IF NextRels = {} THEN <<>>
     ELSE <<"<", next_target, ">", ";", " ", "rel", "=", "\"", "next", "\"">>)
    \o (IF NextRels = {} \/ PrevRels = {} THEN <<>> ELSE <<",">>)
    \o (IF PrevRels = {} THEN <<>>
        ELSE <<"<", prev_target, ">", ";", " ", "rel", "=", "\"",
               CHOOSE r \in PrevRels : TRUE, "\"">>)
ExpectedLink ==
    ExpectedEntries("http://api/search?token=next:b",
                    "http://api/search?token=prev:a")
ExpectedToken == ExpectedEntries("next:b", "prev:a")

\* the Link header is as the page's links require
LinkHeaderRight ==
    IF NextRels \cup PrevRels = {}
    THEN HeaderCount("Link") = 0
    ELSE HeaderCount("Link") = 1 /\ HeaderValue("Link") = ExpectedLink

TokenHeaderRight ==
    IF NextRels \cup PrevRels = {}
    THEN HeaderCount("Pagination-Token") = 0
    ELSE /\ HeaderCount("Pagination-Token") = 1
         /\ HeaderValue("Pagination-Token") = ExpectedToken

C18_ContentDisposition ==
    /\ (runs >= 1 /\ response.status # "ok") => response.headers = <<>>
    /\ Answered =>
        /\ HeaderCount("Content-Disposition") =
              (IF response.output_type \in {"csv", "geojsonseq"} THEN 1 ELSE 0)
        /\ response.output_type = "csv" =>
              HeaderValue("Content-Disposition") =
                  <<"attachment", ";", "filename", "=", "items.csv">>
        /\ response.output_type = "geojsonseq" =>
              HeaderValue("Content-Disposition") =
                  <<"attachment", ";", "filename", "=", "items.geojson">>
        /\ (response.output_type \in {"csv", "geojsonseq"}
                /\ NextRels \cup PrevRels # {})
              => IF IsGet THEN LinkHeaderRight ELSE TokenHeaderRight

C18_Witness ==
    /\ Answered
    /\ request.endpoint = "item_collection"
    /\ response.output_type = "geojsonseq"
    /\ links = <<Link("self"), Link("next")>>
    /\ Keys(response.headers) = <<"Content-Disposition", "Link">>
    /\ HeaderValue("Content-Disposition") =
          <<"attachment", ";", "filename", "=", "items.geojson">>

-----------------------------------------------------------------------------
(* Two requests served concurrently.  The arguments and locals of a handler  *)
(* call and of a generator live in a frame of their own; the server leaves   *)
(* one request for the other between two resumptions of a generator.         *)

\* a DictWriter kept at module level: a resumed generator finds the field
\* names the other request left there
SharedWriter(saved, live) == live

\* `fieldnames` and `writer` are locals of _create_csv_rows: a resumed
\* generator finds the field names it had when it was suspended
OwnWriter(saved, live) == saved

\* a request that has not been handled yet
Task(id, req, its) ==
    [id |-> id, request |-> req, links |-> NoPaging, runs |-> 0,
     response |-> NoResponse, prev |-> NoResponse, items |-> its,
     with_geometry |-> FALSE, rows_pos |-> 1, pc |-> "idle",
     fieldnames |-> <<>>, row |-> <<>>, out |-> <<>>, exc |-> None]

\* the request being served, as it is suspended
Running ==
    [id |-> 3 - other.id, request |-> request, links |-> links, runs |-> runs,
     response |-> response, prev |-> prev, items |-> items,
     with_geometry |-> with_geometry, rows_pos |-> rows_pos, pc |-> pc,
     fieldnames |-> fieldnames, row |-> row, out |-> out, exc |-> exc]

\* the server suspends the request it serves and resumes the other one
Switch ==
    /\ other' = Running
    /\ request' = other.request
    /\ links' = other.links
    /\ runs' = other.runs
    /\ response' = other.response
    /\ prev' = other.prev
    /\ items' = other.items
    /\ with_geometry' = other.with_geometry
    /\ rows_pos' = other.rows_pos
    /\ pc' = other.pc
    /\ fieldnames' = OwnWriter(other.fieldnames, fieldnames)
    /\ row' = other.row
    /\ out' = other.out
    /\ exc' = other.exc
    /\ UNCHANGED outside

\* the handler runs once on a request; its StreamingResponse then resumes
\* the generator of the selected format, one chunk at a time
search_once == runs = 0 /\ get_search
stream_csv ==
    /\ runs = 1
    /\ response.status = "ok"
    /\ response.output_type = "csv"
    /\ NextCsv
stream_geojsonseq ==
    /\ runs = 1
    /\ response.status = "ok"
    /\ response.output_type = "geojsonseq"
    /\ NextSeq

\* the requests and the features of the two concurrent requests
ConcurrentRequests ==
    {[endpoint |-> "get_search", f |-> fa[1], accept |-> fa[2]] :
        fa \in {<<"csv", <<>>>>, <<"geojsonseq", <<>>>>,
                <<None, <<"text/csv">>>>, <<None, <<>>>>}}
ConcurrentFeatures ==
    {<<<<"x">>, "Polygon">>, <<<<"x", "y">>, "Polygon">>}

InitConcurrent ==
    /\ \E r1 \in ConcurrentRequests, r2 \in ConcurrentRequests,
          n1 \in 0..MaxItemsC, n2 \in 0..MaxItemsC :
         \E c1 \in [1..n1 -> ConcurrentFeatures],
            c2 \in [1..n2 -> ConcurrentFeatures] :
            /\ request = r1
            /\ items = Page(c1)
            /\ other = Task(2, r2, Page(c2))
    /\ IdleBut({})
    /\ links = NoPaging
    /\ runs = 0
    /\ response = NoResponse
    /\ prev = NoResponse
    /\ CsvIdle

NextConcurrent ==
    \/ search_once
    \/ stream_csv
    \/ stream_geojsonseq
    \/ Switch

SpecConcurrent == InitConcurrent /\ [][NextConcurrent]_vars

-----------------------------------------------------------------------------
(* Properties of concurrent requests, stated for SpecConcurrent *)

IsPrefix(a, b) == Len(a) <= Len(b) /\ a = SubSeq(b, 1, Len(a))

\* the answers of the handler to the request of t served alone
SoloAnswers(t) ==
    Answer(Validated(t.request.f, HTMLorGeoGetRequestMulti),
           OutputTypes(t.request.f, t.request.accept, GeoMultiResponseType),
           Renderers.multi,
           MultiHeaders(GetAdditionalHeaders(t.links)))

\* the chunks and the end of the CSV export of the page its made alone
SoloCsv(its) ==
    LET geom == \E i \in 1..Len(its) : its[i].geometry # None
        fails(i) == geom /\ its[i].geometry = None
        r(i) == Project(its[i], geom)
        names == Keys(r(1))
        bad == {i \in 1..Len(its) :
                   fails(i) \/ ~(KeySet(r(i)) \subseteq Range(names))}
        stop == IF bad = {} THEN Len(its) + 1 ELSE SetMin(bad)
    IN  IF its = <<>>
        THEN [out |-> <<>>, end |-> "raised", exc |-> "RuntimeError"]
        ELSE IF fails(1)
        THEN [out |-> <<>>, end |-> "raised", exc |-> "TypeError"]
        ELSE [out |-> <<names>> \o
                      [i \in 1..(stop - 1) |->
                          [j \in 1..Len(names) |-> Get(r(i), names[j], "")]],
              end |-> IF bad = {} THEN "returned" ELSE "raised",
              exc |-> IF bad = {} THEN None
                      ELSE IF fails(stop) THEN "TypeError" ELSE "ValueError"]

\* the chunks and the end of the geojsonseq stream of the page its made alone
SoloSeq(its) ==
    [out |-> [i \in 1..Len(its) |-> SeqChunk(its[i])],
     end |-> "returned", exc |-> None]

\* the request t has, so far, what it has when it is served alone
AsAlone(t) ==
    /\ t.runs = 0 => (t.response = NoResponse /\ t.pc = "idle")
    /\ t.runs >= 1 => t.response \in SoloAnswers(t)
    /\ t.pc = "idle" => t.out = <<>>
    /\ t.pc # "idle" =>
          LET solo == IF t.response.output_type = "csv"
                      THEN SoloCsv(t.items) ELSE SoloSeq(t.items)
          IN  /\ IsPrefix(t.out, solo.out)
              /\ t.pc \in {"returned", "raised"} =>
                    /\ t.out = solo.out
                    /\ t.pc = solo.end
                    /\ t.exc = solo.exc

\* C20: however the chunks of two concurrent requests interleave, each
\* request gets the format and the chunks it gets when it is served alone.
C20_ConcurrentAsAlone == AsAlone(Running) /\ AsAlone(other)

\* both exports are under way at once, each between two of its chunks, with
\* different columns, and each has the chunks of its own page
C20_Witness ==
    /\ response.output_type = "csv"
    /\ other.response.output_type = "csv"
    /\ pc = "loop"
    /\ other.pc = "first"
    /\ fieldnames = <<"itemId", "collectionId", "x", "geometry">>
    /\ other.fieldnames = <<"itemId", "collectionId", "x", "y", "geometry">>
    /\ Len(out) = 3
    /\ Len(other.out) = 2
    /\ other.rows_pos = 2
    /\ Len(other.items) = 2

-----------------------------------------------------------------------------
(* create_html_response: the breadcrumb trail of an HTML page *)

\* str.rstrip("/")
RECURSIVE RStrip(_)
RStrip(s) ==
    IF s # <<>> /\ s[Len(s)] = "/" THEN RStrip(SubSeq(s, 1, Len(s) - 1)) ELSE s

\* re.sub(r"^" + prefix, "", s) for a prefix without regular-expression syntax
StripPrefix(s, prefix) ==
    IF Len(prefix) <= Len(s) /\ SubSeq(s, 1, Len(prefix)) = prefix
    THEN SubSeq(s, Len(prefix) + 1, Len(s))
    ELSE s

\* str.capitalize() of the path segments of the model
Capitalized ==
    [collections |-> "Collections", items |-> "Items", search |-> "Search",
     conformance |-> "Conformance", queryables |-> "Queryables",
     c1 |-> "C1", home |-> "Home", HOME |-> "Home", i1 |-> "I1", Home |-> "Home"]

\* `part = crumb; if part is None or part == "": part = "Home"`, capitalized
Part(crumb) ==
    IF crumb = <<>> THEN <<"Home">>
    ELSE [i \in 1..Len(crumb) |-> IF i = 1 THEN Capitalized[crumb[1]] ELSE crumb[i]]

\* request.url.path and str(request.base_url) of the page
UrlPath(p) ==
    p.root_path \o p.router_prefix \o
    (IF p.segments = <<>> THEN <<"/">>
     ELSE Join([i \in 1..Len(p.segments) |-> <<"/", p.segments[i]>>], <<>>))
BaseUrl(p) == <<"http://api">> \o p.root_path \o <<"/">>

\* the `for crumb in urlpath.split("/")` loop, from the crumbs split
RECURSIVE Crumbs(_, _)
Crumbs(crumbpath, pieces) ==
    IF pieces = <<>> THEN <<>>
    ELSE LET path == RStrip(crumbpath) \o <<"/">> \o pieces[1]
         IN  <<[url |-> RStrip(path), part |-> Part(pieces[1])]>>
             \o Crumbs(path, Tail(pieces))

create_html_response ==
    /\ context = NoContext
    /\ LET stripped == IF page.root_path # <<>>
                       THEN StripPrefix(UrlPath(page), page.root_path)
                       ELSE UrlPath(page)
           unprefixed == IF page.router_prefix # <<>>
                         THEN StripPrefix(stripped, page.router_prefix)
                         ELSE stripped
           baseurl == RStrip(BaseUrl(page)) \o page.router_prefix
           urlpath == IF unprefixed = <<"/">> THEN <<>> ELSE unprefixed
       IN  context' = [crumbs |-> Crumbs(baseurl, Split(urlpath, "/")),
                       url |-> baseurl \o urlpath,
                       api_root |-> baseurl]
    /\ UNCHANGED <<page, routes, route_call, config, built, negVars, csvVars, other,
                   single_pass, hookVars, authVars>>

\* the pages of the API that have an HTML representation
RoutePaths ==
    {<<>>, <<"conformance">>, <<"collections">>, <<"search">>, <<"queryables">>}
    \cup {<<"collections", c>> : c \in {"c1", "home", "HOME"}}
    \cup {<<"collections", c, "items">> : c \in {"c1", "home", "HOME"}}
    \cup {<<"collections", c, "queryables">> : c \in {"c1", "home", "HOME"}}
    \cup {<<"collections", c, "items", i>> :
            c \in {"c1", "home", "HOME"}, i \in {"i1", "home", "Home"}}
RootPaths == {<<>>, <<"/", "prod">>}
RouterPrefixes == {<<>>, <<"/", "stac">>}

InitHtml ==
    /\ request = [endpoint |-> "get_search", f |-> "html", accept |-> <<>>]
    /\ links = NoPaging
    /\ runs = 1
    /\ response = [status |-> "ok", output_type |-> "html", body |-> "html",
                   headers |-> <<>>]
    /\ prev = NoResponse
    /\ items = <<>>
    /\ CsvIdle
    /\ other = NoTask
    /\ \E r \in RootPaths, x \in RouterPrefixes, segs \in RoutePaths :
         page = [root_path |-> r, router_prefix |-> x, segments |-> segs]
    /\ context = NoContext
    /\ IdleBut({"html"})

NextHtml == create_html_response

SpecHtml == InitHtml /\ [][NextHtml]_vars

\* the base URL and the URL of the page up to its n-th segment
ExpectedBase == <<"http://api">> \o page.root_path \o page.router_prefix
ExpectedUrl(n) ==
    ExpectedBase \o Join([i \in 1..n |-> <<"/", page.segments[i]>>], <<>>)

\* C21: the trail starts with the crumb Home pointing at the base URL, has
\* one crumb per path segment whose URL is the base URL followed by the path
\* up to that segment, ends on the URL of the page, and has no crumb Home
\* but the first.
C21_BreadcrumbTrail ==
    context # NoContext =>
        /\ Len(context.crumbs) = Len(page.segments) + 1
        /\ context.crumbs[1] = [url |-> ExpectedBase, part |-> <<"Home">>]
        /\ \A n \in 1..Len(page.segments) :
              context.crumbs[n + 1].url = ExpectedUrl(n)
        /\ context.crumbs[Len(context.crumbs)].url = context.url
        /\ \A n \in 2..Len(context.crumbs) : context.crumbs[n].part # <<"Home">>

-----------------------------------------------------------------------------
(* add_route_dependencies of the raster runtime *)

MaxScopes == 2      \* scopes of one call

\* starlette compile_path: the paths the regular expression of a route
\* matches, among the paths of the model.  A parameter {id} matches any
\* text without "/", its own spelling included; {z:int} matches digits only.
PathRegex ==
    [health |-> {"/health"},
     items |-> {"/items/{id}", "/items/1"},
     tiles |-> {"/tiles/1"},
     docs |-> {"/docs"}]

\* the routes of the application: APIRoutes, and a plain Route without a
\* dependant
AppRoutes ==
    <<[name |-> "health", path |-> "/health", methods |-> <<"GET", "HEAD">>,
       has_dependant |-> TRUE, dependant |-> <<"d0">>, dependencies |-> <<>>],
      [name |-> "items", path |-> "/items/{id}", methods |-> <<"POST">>,
       has_dependant |-> TRUE, dependant |-> <<"d0">>, dependencies |-> <<>>],
      [name |-> "tiles", path |-> "/tiles/{z:int}", methods |-> <<"GET", "HEAD">>,
       has_dependant |-> TRUE, dependant |-> <<"d0">>, dependencies |-> <<>>],
      [name |-> "docs", path |-> "/docs", methods |-> <<"GET", "HEAD">>,
       has_dependant |-> FALSE, dependant |-> <<>>, dependencies |-> <<>>]>>

\* route.matches({"type": "http", **_scope}) == Match.FULL
FullMatch(route, path, method) ==
    path \in PathRegex[route.name] /\ method \in Range(route.methods)

\* one turn of `for route in routes` for the scope
AddToRoute(route, scope, dependencies) ==
    LET path == IF scope.path = "*" THEN route.path ELSE scope.path
        method == IF scope.method = "*" THEN route.methods[1] ELSE scope.method
    IN  IF ~FullMatch(route, path, method) THEN route
        ELSE IF ~route.has_dependant THEN route
        ELSE [route EXCEPT !.dependant = dependencies \o @,
                           !.dependencies = @ \o dependencies]

\* `for scope in scopes: for route in routes:`
RECURSIVE AddScopes(_, _, _)
AddScopes(rs, scopes, dependencies) ==
    IF scopes = <<>> THEN rs
    ELSE AddScopes([i \in 1..Len(rs) |-> AddToRoute(rs[i], scopes[1], dependencies)],
                   Tail(scopes), dependencies)

add_route_dependencies ==
    /\ ~route_call.done
    /\ routes' = AddScopes(routes, route_call.scopes, route_call.dependencies)
    /\ route_call' = [route_call EXCEPT !.done = TRUE]
    /\ UNCHANGED <<page, context, config, built, negVars, csvVars, other,
                   single_pass, hookVars, authVars>>

ScopePaths == {"*", "/health", "/items/1", "/tiles/1"}
ScopeMethods == {"*", "GET", "POST"}
Scopes == [path : ScopePaths, method : ScopeMethods]

InitRoutes ==
    /\ request = [endpoint |-> "raster_landing", f |-> None, accept |-> <<>>]
    /\ links = NoPaging
    /\ runs = 0
    /\ response = NoResponse
    /\ prev = NoResponse
    /\ items = <<>>
    /\ CsvIdle
    /\ other = NoTask
    /\ routes = AppRoutes
    /\ \E n \in 0..MaxScopes :
         \E ss \in [1..n -> Scopes] :
            route_call = [scopes |-> ss, dependencies |-> <<"d1", "d2">>,
                          done |-> FALSE]
    /\ IdleBut({"routes"})

NextRoutes == add_route_dependencies

SpecRoutes == InitRoutes /\ [][NextRoutes]_vars

\* the scope names the route: its path is "*" or a path of the route, and
\* its method is "*" or a method of the route
Names(scope, route) ==
    /\ scope.path = "*" \/ scope.path \in PathRegex[route.name]
    /\ scope.method = "*" \/ scope.method \in Range(route.methods)

\* C22: after the call a route has got the dependencies exactly when it has
\* a dependant and one of the scopes names it, "*" naming every path and
\* every method; every other route has the dependencies it had.
C22_DependenciesOnMatchingRoutes ==
    route_call.done =>
        \A i \in 1..Len(routes) :
            LET named == /\ AppRoutes[i].has_dependant
                         /\ \E k \in 1..Len(route_call.scopes) :
                               Names(route_call.scopes[k], AppRoutes[i])
            IN  IF named
                THEN /\ IsPrefix(route_call.dependencies, routes[i].dependant)
                     /\ routes[i].dependencies # <<>>
                ELSE routes[i] = AppRoutes[i]

-----------------------------------------------------------------------------
(* AppConfig.validate_model of the infrastructure configuration *)

MaxNat == 1         \* nat_gateway_count ranges over -1..MaxNat

\* bool(v) of an Optional[str]
StrTruthy(v) == v # None /\ v # ""

\* any([...]) of the four custom domains
AnyDomain(c) ==
    \/ StrTruthy(c.stac_api_custom_domain)
    \/ StrTruthy(c.raster_api_custom_domain)
    \/ StrTruthy(c.vector_api_custom_domain)
    \/ StrTruthy(c.stac_ingestor_api_custom_domain)

\* the model validator run after the fields are set
validate_model ==
    /\ built = "none"
    /\ built' =
          IF ~config.public_db_subnet /\ config.nat_gateway_count <= 0
          THEN "ValueError"
          ELSE IF /\ config.stac_browser_version # None
                  /\ config.stac_api_custom_domain = None
          THEN "ValueError"
          ELSE IF config.acm_certificate_arn = None /\ AnyDomain(config)
          THEN "ValueError"
          ELSE "ok"
    /\ UNCHANGED <<config, page, context, routes, route_call,
                   negVars, csvVars, other,
                   single_pass, hookVars, authVars>>

\* an Optional[str] field: absent, the empty string of an empty environment
\* variable, or a value
OptionalStrs == {None, "", "v"}

InitConfig ==
    /\ request = [endpoint |-> "landing_page", f |-> None, accept |-> <<>>]
    /\ links = NoPaging
    /\ runs = 0
    /\ response = NoResponse
    /\ prev = NoResponse
    /\ items = <<>>
    /\ CsvIdle
    /\ other = NoTask
    /\ \E pub \in BOOLEAN, nat \in (-1)..MaxNat,
          acm \in OptionalStrs, stac \in OptionalStrs, raster \in OptionalStrs,
          vector \in OptionalStrs, ingestor \in OptionalStrs,
          browser \in OptionalStrs :
         config = [public_db_subnet |-> pub, nat_gateway_count |-> nat,
                   acm_certificate_arn |-> acm,
                   stac_api_custom_domain |-> stac,
                   raster_api_custom_domain |-> raster,
                   vector_api_custom_domain |-> vector,
                   stac_ingestor_api_custom_domain |-> ingestor,
                   stac_browser_version |-> browser]
    /\ built = "none"
    /\ IdleBut({"config"})

NextConfig == validate_model

SpecConfig == InitConfig /\ [][NextConfig]_vars

\* the three deployment constraints; a field is set when it is not None
IsSet(v) == v # None
Constraints ==
    /\ ~config.public_db_subnet => config.nat_gateway_count > 0
    /\ IsSet(config.stac_browser_version) => IsSet(config.stac_api_custom_domain)
    /\ (\/ IsSet(config.stac_api_custom_domain)
        \/ IsSet(config.raster_api_custom_domain)
        \/ IsSet(config.vector_api_custom_domain)
        \/ IsSet(config.stac_ingestor_api_custom_domain))
          => IsSet(config.acm_certificate_arn)

\* C23: an AppConfig is constructed exactly when the three deployment
\* constraints hold, and the construction raises ValueError otherwise.
C23_ConstructedConfigIsValid ==
    /\ built = "ok" => Constraints
    /\ built = "ValueError" => ~Constraints

-----------------------------------------------------------------------------
(* The quality weights of the preference mapping *)

MaxEntriesQ == 2    \* entries of an Accept header with q values off [0, 1]

\* entries whose q is above 1 or below 0, among entries that are in range
EntriesQ ==
    {<<"application/json">>, <<"text/html">>,
     Q("text/html", <<"2">>), Q("text/html", <<"-1">>),
     Q("text/html", <<"0.5">>), Q("application/json", <<"0.8">>),
     Q("text/csv", <<"2">>)}

InitRange ==
    /\ \E ep \in Endpoints, n \in 0..MaxEntriesQ :
         \E es \in [1..n -> EntriesQ] :
            request = [endpoint |-> ep, f |-> None, accept |-> Header(es)]
    /\ links = NoPaging
    /\ runs = 0
    /\ response = NoResponse
    /\ prev = NoResponse
    /\ items = <<>>
    /\ CsvIdle
    /\ other = NoTask
    /\ IdleBut({})

SpecRange == InitRange /\ [][Next]_vars

InUnitRange(x) == ~x.nan /\ Zero.v <= x.v /\ x.v <= One.v

\* C24: every quality weight of the parsed preference mapping lies within
\* [0.0, 1.0], and the member the handler selects does not outrank the
\* default quality 1.0.
C24_QualityWithinUnitRange ==
    (runs >= 1 /\ Parsed)
        => /\ \A n \in DOMAIN Preference.values :
                InUnitRange(Preference.values[n])
           /\ (response.status = "ok" /\ response.output_type \in NamedSupported)
                => ~FloatGt(QualityOfMember(response.output_type), One)

-----------------------------------------------------------------------------
(* The CSV export of records given as an iterator *)

InitLazy ==
    /\ request = CsvRequest
    /\ links = NoPaging
    /\ runs = 1
    /\ response = [status |-> "ok", output_type |-> "csv", body |-> "csv",
                   headers |-> StreamHeaders("items.csv", <<>>)]
    /\ prev = NoResponse
    /\ other = NoTask
    /\ \E n \in 0..MaxItems :
         \E c \in [1..n -> KeyOrders \X Geometries] : items = Page(c)
    /\ CsvIdle
    /\ single_pass = TRUE
    /\ IdleBut({"lazy"})

SpecLazy == InitLazy /\ [][NextCsv]_vars

\* C25: of records with the same columns, read from an iterator, the export
\* ends normally with the header and one row for each record, in order.
C25_SinglePassEveryRecordHasRow ==
    (single_pass /\ SameColumns /\ pc \in {"returned", "raised"})
        => /\ pc = "returned"
           /\ Len(out) = Len(items) + 1
           /\ \A j \in 1..Len(items) : out[j + 1][1] = items[j].id

-----------------------------------------------------------------------------
(* The SnapStart hooks of the Lambda handlers raster_handler.py and          *)
(* stac_handler.py                                                           *)

MaxHooks == 4       \* hook invocations in one execution environment

\* the pools of an application, in the order the hooks treat them
Roles(app) ==
    IF app = "raster" THEN <<"dbpool">> ELSE <<"readpool", "writepool">>

\* what the call `pool.close()` does.  The raster pool is a
\* psycopg_pool.ConnectionPool: close() closes the pool or raises.  The STAC
\* pools are asyncpg pools, whose close is a coroutine function: the call,
\* which the hooks do not await, creates a coroutine and closes nothing.
CloseOutcomes(app) ==
    IF app = "raster" THEN {"closed", "raised"} ELSE {"not_awaited"}

\* `if hasattr(app.state, r) and app.state.r: try: app.state.r.close() ...`
\* on the state st; on_snapshot clears the reference inside the try block
\* (in_try), on_snap_restore after it
CloseRole(st, r, how, in_try) ==
    LET id == st.attached[r]
    IN  IF id = 0 THEN st
        ELSE [attached |-> IF how = "raised" /\ in_try THEN st.attached
                           ELSE [st.attached EXCEPT ![r] = 0],
              pools |-> [st.pools EXCEPT ![id] =
                            [role |-> @.role,
                             open |-> IF how = "closed" THEN FALSE ELSE @.open,
                             close_calls |-> @.close_calls + 1,
                             closed |-> @.closed + (IF how = "closed" THEN 1 ELSE 0)]]]

RECURSIVE CloseRoles(_, _, _, _)
CloseRoles(st, roles, how, in_try) ==
    IF roles = <<>> THEN st
    ELSE CloseRoles(CloseRole(st, roles[1], how[roles[1]], in_try),
                    Tail(roles), how, in_try)

\* the roles whose close() raised
CloseRaised(st, roles, how) ==
    {r \in Range(roles) : st.attached[r] # 0 /\ how[r] = "raised"}

\* connect_to_db: the pools it creates and attaches; it may raise before the
\* first pool exists or, with a write pool, after the read pool is attached
ConnectOutcomes(l) ==
    {"ok", "raised"}
    \cup (IF l.app = "stac" /\ l.enable_transaction THEN {"raised_write"} ELSE {})
ConnectRoles(l) ==
    IF l.app = "raster" THEN <<"dbpool">>
    ELSE IF l.enable_transaction THEN <<"readpool", "writepool">>
    ELSE <<"readpool">>
connect_to_db(st, l, outcome) ==
    LET made == IF outcome = "ok" THEN ConnectRoles(l)
                ELSE IF outcome = "raised_write" THEN <<"readpool">>
                ELSE <<>>
    IN  [attached |->
            [r \in DOMAIN st.attached |->
                IF \E i \in 1..Len(made) : made[i] = r
                THEN Len(st.pools) + (CHOOSE i \in 1..Len(made) : made[i] = r)
                ELSE st.attached[r]],
         pools |-> st.pools \o
                   [i \in 1..Len(made) |->
                       [role |-> made[i], open |-> TRUE,
                        close_calls |-> 0, closed |-> 0]]]

\* a hook that reports success whatever connect_to_db did
AlwaysOk(outcome) == "ok"

\* `except Exception as e: print(...); raise`, else `return {"statusCode": 200}`
RestoreResult(outcome) == IF outcome = "ok" THEN "ok" ELSE "raised"

AppState == [attached |-> attached, pools |-> pools]
Attached == {attached[r] : r \in DOMAIN attached} \ {0}
AppStarted ==
    /\ hook.name # "none"
    /\ ~(hook.name = "startup_event" /\ hook.result = "raised")

\* `loop.run_until_complete(app.router.startup())` when the module is loaded
startup_event ==
    /\ hook.name = "none"
    /\ hooks_run < MaxHooks
    /\ \E outcome \in ConnectOutcomes(lambda_app) :
         LET st == connect_to_db(AppState, lambda_app, outcome)
         IN  /\ attached' = st.attached
             /\ pools' = st.pools
             /\ hook' = [name |-> "startup_event",
                         result |-> IF outcome = "ok" THEN "ok" ELSE "raised",
                         before |-> Attached, close_raised |-> {},
                         connect |-> outcome,
                         initialized_before |-> connection_initialized]
    /\ hooks_run' = hooks_run + 1
    /\ UNCHANGED <<lambda_app, connection_initialized>>
    /\ UNCHANGED <<negVars, csvVars, other, authVars,
                   page, context, routes, route_call,
                   config, built, single_pass>>

on_snapshot ==
    /\ AppStarted
    /\ hooks_run < MaxHooks
    /\ \E how \in [Range(Roles(lambda_app.app)) -> CloseOutcomes(lambda_app.app)] :
         LET st == CloseRoles(AppState, Roles(lambda_app.app), how, TRUE)
         IN  /\ attached' = st.attached
             /\ pools' = st.pools
             /\ hook' = [name |-> "on_snapshot", result |-> "ok",
                         before |-> Attached,
                         close_raised |->
                             CloseRaised(AppState, Roles(lambda_app.app), how),
                         connect |-> "none",
                         initialized_before |-> connection_initialized]
    /\ hooks_run' = hooks_run + 1
    /\ UNCHANGED <<lambda_app, connection_initialized>>
    /\ UNCHANGED <<negVars, csvVars, other, authVars,
                   page, context, routes, route_call,
                   config, built, single_pass>>

on_snap_restore ==
    /\ AppStarted
    /\ hooks_run < MaxHooks
    /\ \E how \in [Range(Roles(lambda_app.app)) -> CloseOutcomes(lambda_app.app)],
          outcome \in ConnectOutcomes(lambda_app) :
         LET closed == CloseRoles(AppState, Roles(lambda_app.app), how, FALSE)
             st == connect_to_db(closed, lambda_app, outcome)
         IN  /\ attached' = st.attached
             /\ pools' = st.pools
             /\ connection_initialized' =
                   (IF outcome = "ok" THEN TRUE ELSE connection_initialized)
             /\ hook' = [name |-> "on_snap_restore",
                         result |-> RestoreResult(outcome),
                         before |-> Attached,
                         close_raised |->
                             CloseRaised(AppState, Roles(lambda_app.app), how),
                         connect |-> outcome,
                         initialized_before |-> connection_initialized]
    /\ hooks_run' = hooks_run + 1
    /\ UNCHANGED lambda_app
    /\ UNCHANGED <<negVars, csvVars, other, authVars,
                   page, context, routes, route_call,
                   config, built, single_pass>>

LambdaApps ==
    {[app |-> "raster", enable_transaction |-> FALSE],
     [app |-> "stac", enable_transaction |-> FALSE],
     [app |-> "stac", enable_transaction |-> TRUE]}

InitHooks ==
    /\ request = [endpoint |-> "landing_page", f |-> None, accept |-> <<>>]
    /\ links = NoPaging
    /\ runs = 0
    /\ response = NoResponse
    /\ prev = NoResponse
    /\ items = <<>>
    /\ CsvIdle
    /\ other = NoTask
    /\ lambda_app \in LambdaApps
    /\ attached = NoPools
    /\ pools = <<>>
    /\ connection_initialized = FALSE
    /\ hook = NoHook
    /\ hooks_run = 0
    /\ IdleBut({"hooks"})

NextHooks ==
    \/ startup_event
    \/ on_snapshot
    \/ on_snap_restore

SpecHooks == InitHooks /\ [][NextHooks]_vars

-----------------------------------------------------------------------------
(* Properties of the SnapStart hooks, stated for SpecHooks *)

OpenPools(role) == {id \in 1..Len(pools) : pools[id].role = role /\ pools[id].open}

\* C26: when on_snapshot has returned, no pool is attached to app.state and
\* every pool that was attached when the hook started is closed.
C26_NoPoolAfterSnapshot ==
    hook.name = "on_snapshot" =>
        /\ Attached = {}
        /\ \A id \in hook.before : ~pools[id].open

\* C27: when on_snap_restore has returned normally, every pool that was
\* still attached is closed and detached, a newly opened pool is attached
\* for each role of the application, and _connection_initialized is true.
C27_RestoreRecreatesPools ==
    (hook.name = "on_snap_restore" /\ hook.result = "ok") =>
        /\ \A id \in hook.before : ~pools[id].open /\ id \notin Attached
        /\ \A r \in Range(ConnectRoles(lambda_app)) :
              /\ attached[r] # 0
              /\ attached[r] \notin hook.before
              /\ pools[attached[r]].open
        /\ connection_initialized

\* C28: at most one pool of each role is open, no pool has been closed more
\* than once, and every open pool is attached to app.state.
C28_NoPoolLeaked ==
    /\ \A r \in DOMAIN attached : Cardinality(OpenPools(r)) <= 1
    /\ \A id \in 1..Len(pools) :
          /\ pools[id].closed <= 1
          /\ pools[id].open => id \in Attached

\* C29: when connect_to_db fails in on_snap_restore the hook raises and
\* leaves _connection_initialized as it was; when the close() of a stale
\* pool fails, the hook still calls connect_to_db and succeeds if it does.
C29_ReconnectFailureRaises ==
    hook.name = "on_snap_restore" =>
        /\ hook.connect # "ok" =>
              /\ hook.result = "raised"
              /\ connection_initialized = hook.initialized_before
        /\ hook.connect = "ok" => (hook.result = "ok" /\ connection_initialized)
        /\ hook.close_raised # {} => hook.connect # "none"

C29_Witness ==
    /\ hook.name = "on_snap_restore"
    /\ hook.close_raised = {"dbpool"}
    /\ hook.connect = "raised"
    /\ hook.result = "raised"
    /\ ~connection_initialized
    /\ Attached = {}

-----------------------------------------------------------------------------
(* The user_token dependency of OidcAuth (runtimes/eoapi/stac/eoapi/stac/   *)
(* auth.py).  The Authorization value and the scope claim are strings, the  *)
(* name "readonly" being the atoms "read" "only".  jwt.decode and the JWKS  *)
(* client are PyJWT's: the token either decodes to its payload or raises    *)
(* the exception PyJWT documents for what is wrong with it.                 *)

MaxHeader == 3      \* atoms of the Authorization value

\* str.lower()
LowerAtom(a) == IF a \in {"Bearer", "BEARER"} THEN "bearer" ELSE a
Lower(s) == [i \in 1..Len(s) |-> LowerAtom(s[i])]

\* a in b, for two str
IsInfix(a, b) ==
    \E i \in 0..(Len(b) - Len(a)) : SubSeq(b, i + 1, i + Len(a)) = a

\* scope in payload["scope"]: a substring test on a str, membership in a list
InClaim(scope, claim) ==
    IF claim.form = "str" THEN IsInfix(scope, claim.str)
    ELSE \E i \in 1..Len(claim.list) : claim.list[i] = scope

\* the subclasses of jwt.exceptions.InvalidTokenError that jwt.decode and
\* get_signing_key_from_jwt raise; PyJWKClientError is not one of them
InvalidTokenError ==
    {"DecodeError", "InvalidSignatureError", "InvalidAudienceError"}

\* jwt.decode(token, jwks_client.get_signing_key_from_jwt(token).key, ...)
Decode(token, jwt) ==
    IF token # <<"jwt">> THEN "DecodeError"
    ELSE IF jwt.kind = "unknown_kid" THEN "PyJWKClientError"
    ELSE IF jwt.kind = "bad_signature" THEN "InvalidSignatureError"
    ELSE IF jwt.kind = "bad_audience" THEN "InvalidAudienceError"
    ELSE "payload"

Bearer == [scheme |-> "Bearer", scope |-> None]
Unauthorized(detail, challenge) ==
    [status |-> "http_401", detail |-> detail, headers |-> challenge,
     payload |-> None, exc |-> "HTTPException"]
TokenRaised(e) ==
    [status |-> "raised", detail |-> None, headers |-> None,
     payload |-> None, exc |-> e]
TokenReturned(payload) ==
    [status |-> "returned", detail |-> None, headers |-> None,
     payload |-> payload, exc |-> None]

\* for scope in required_scopes.scopes: ...; return payload
RECURSIVE ValidateScopes(_, _, _)
ValidateScopes(scopes, i, payload) ==
    IF i > Len(scopes) THEN TokenReturned(payload)
    ELSE IF payload.scope.form = "absent" THEN TokenRaised("KeyError")
    ELSE IF ~InClaim(scopes[i], payload.scope)
    THEN Unauthorized("Not enough permissions",
                      [scheme |-> "Bearer", scope |-> Join(scopes, <<" ">>)])
    ELSE ValidateScopes(scopes, i + 1, payload)

UserToken(ts, scopes, jwt) ==
    LET token_parts == Split(ts, " ")
    IN  IF Len(token_parts) # 2 \/ Lower(token_parts[1]) # <<"bearer">>
        THEN Unauthorized("Invalid authorization header", Bearer)
        ELSE LET decoded == Decode(token_parts[2], jwt)
             IN  IF decoded \in InvalidTokenError
                 THEN Unauthorized("Could not validate credentials", Bearer)
                 ELSE IF decoded # "payload" THEN TokenRaised(decoded)
                 ELSE ValidateScopes(scopes, 1, jwt)

\* the dependency is called once for the request
user_token ==
    /\ token_result = NoTokenResult
    /\ token_result' = UserToken(token_str, required_scopes, jwt_token)
    /\ UNCHANGED <<negVars, csvVars, other, page, context, routes, route_call,
                   config, built, single_pass, hookVars,
                   token_str, required_scopes, jwt_token>>

\* the Authorization values, the scope names, the scope claims, the tokens
HeaderAtoms == {" ", "Bearer", "BEARER", "Basic", "jwt"}
ScopeRead == <<"read">>
ScopeReadOnly == <<"read", "only">>
ScopeWrite == <<"write">>
GrantedScopes ==
    {<<>>, <<ScopeRead>>, <<ScopeReadOnly>>, <<ScopeWrite>>,
     <<ScopeRead, ScopeWrite>>}
RequiredScopes ==
    {<<>>, <<ScopeRead>>, <<ScopeWrite>>, <<ScopeRead, ScopeWrite>>}
ScopeClaims ==
    {[form |-> "absent", str |-> <<>>, list |-> <<>>]}
    \cup {[form |-> "str", str |-> Join(g, <<" ">>), list |-> <<>>] :
              g \in GrantedScopes}
    \cup {[form |-> "list", str |-> <<>>, list |-> g] : g \in GrantedScopes}
TokenKinds == {"valid", "bad_signature", "bad_audience", "unknown_kid"}

InitAuth ==
    /\ request = [endpoint |-> "landing_page", f |-> None, accept |-> <<>>]
    /\ links = NoPaging
    /\ runs = 0
    /\ response = NoResponse
    /\ prev = NoResponse
    /\ items = <<>>
    /\ CsvIdle
    /\ other = NoTask
    /\ IdleBut({"auth"})
    /\ \E n \in 1..MaxHeader : token_str \in [1..n -> HeaderAtoms]
    /\ required_scopes \in RequiredScopes
    /\ \E k \in TokenKinds, c \in ScopeClaims :
           jwt_token = [kind |-> k, scope |-> c]
    /\ token_result = NoTokenResult

NextAuth == user_token

SpecAuth == InitAuth /\ [][NextAuth]_vars

-----------------------------------------------------------------------------
(* Properties of user_token, stated for SpecAuth *)

\* the Authorization value is "<bearer> <token>", in any case of "bearer"
HeaderOk ==
    /\ Len(token_str) >= 2
    /\ token_str[1] \in {"Bearer", "BEARER"}
    /\ token_str[2] = " "
    /\ \A i \in 3..Len(token_str) : token_str[i] # " "

\* the token is a JWT that validates
JwtOk == SubSeq(token_str, 3, Len(token_str)) = <<"jwt">> /\ jwt_token.kind = "valid"

\* the scopes the scope claim grants
Granted ==
    IF jwt_token.scope.form = "str"
    THEN Range(Split(jwt_token.scope.str, " "))
    ELSE Range(jwt_token.scope.list)

ScopesOk == \A i \in 1..Len(required_scopes) : required_scopes[i] \in Granted

\* C30: user_token returns the payload when the Authorization value is
\* "bearer <token>", the token validates and every required scope is one of
\* the scopes the scope claim grants; in every other case it raises HTTP 401
\* with a Bearer challenge, the detail being that of the first check that
\* failed, and returns no payload.
C30_PayloadOrUnauthorized ==
    token_result # NoTokenResult =>
        IF HeaderOk /\ JwtOk /\ ScopesOk
        THEN token_result = TokenReturned(jwt_token)
        ELSE /\ token_result.status = "http_401"
             /\ token_result.headers.scheme = "Bearer"
             /\ token_result.payload = None
             /\ token_result.detail =
                    IF ~HeaderOk THEN "Invalid authorization header"
                    ELSE IF ~JwtOk THEN "Could not validate credentials"
                    ELSE "Not enough permissions"

====
